---- MODULE Spec2Model ----
(***************************************************************************)
(* A model of esockets/socket_server.py: the Client wrapper, the two       *)
(* dispatch loops of SocketServer, the handshake workers, the register /   *)
(* unregister / disconnect protocol and stop().                            *)
(*                                                                         *)
(* Threads are numbered: 0 is the thread calling stop(), c in Clients is   *)
(* the handshake worker started for connection c, negative numbers are     *)
(* threads of the application calling the public API from outside.         *)
(* Every access to shared state (the clients list, the selector's map, a   *)
(* Client's fields) is one step; steps of different threads interleave.    *)
(***************************************************************************)
EXTENDS Integers, Sequences, FiniteSets, TLC

\* Number of connections the accept loop accepts in one run of the model.
MaxClients == 2
\* max_subthreads handed to maxthreads.MaxThreads: the worker-pool ceiling.
MaxSubthreads == 1
\* Longest message handed to send.
MaxMsgLen == 2
\* Reads of one recv call that may come back shorter than asked.
MaxShortReads == 2
\* The most Client.recv asks of the socket in one read.
RecvChunkLimit == 2048

Clients == 1..MaxClients
StopThread == 0
Callers == {-1, -2}
Threads == Clients \cup {StopThread} \cup Callers

\* What a callback hands back: the value True, another value, or a raise.
ValTrue == "True"
ValReject == "bad handshake"
ReasonBroken == "Socket connection broken"
ReasonExplicit == "explicit disconnect"
ReasonShutdown == "Server shutting down"

VARIABLES
    \* SocketServer: listening socket and the two loopfunction.Loop objects
    listenSock, stopSignal, acceptAlive, pollAlive,
    \* accept loop position, number of sockets accepted so far
    acceptPc, nAccepted,
    \* self.clients (a list), the map of self._recv_selector
    clients, watch,
    \* Client.closed (the socket is closed with it), Client.accepted
    closed, accepted,
    \* poll loop: position, events still to handle, the event in hand
    pollPc, pollEvents, pollCur,
    \* each thread's position; workers: kind of handshake, callback's value,
    \* whether the callback already disconnected, where disconnect returns to
    pc, wKind, wValue, cbDc, dcRet,
    \* stop(): the copy of self.clients it iterates and the index in it
    stopSnap, stopIdx,
    \* observations: calls of handle_closed per connection and their reasons,
    \* exceptions that left a worker, two workers started for one connection
    closeCount, closeReasons, wEscaped, doubleDispatch,
    \* Client.send_lock: the threads holding it
    sendLock,
    \* a thread of the application in a call of the public API: the call,
    \* its connection; for send: len(bytes), timeout, total_sent, the bytes
    \* the socket took, the value returned (-1: none yet)
    callKind, callClient, sLen, sTimeout, sTotal, sWire, sResult,
    \* a call of Client.recv: position, size, fixed, bytes_recd, chunks, the
    \* offset in the peer's byte stream of the next byte the socket hands
    \* out, the reads that came back shorter than asked, the value returned
    recvPc, recvSize, recvFixed, recvGot, recvChunks, recvPos, recvShort, recvResult,
    \* the last call of register / unregister from outside: a bit flipped by
    \* every call, the method, its client and silent, the exception raised
    apiTick, apiOp, apiClient, apiSilent, apiRaised,
    \* max_subthreads of this server: a ceiling, or -1 for no ceiling
    poolCeiling

srvVars == <<listenSock, stopSignal, acceptAlive, pollAlive>>
accVars == <<acceptPc, nAccepted>>
regVars == <<clients, watch, closed, accepted>>
pollVars == <<pollPc, pollEvents, pollCur>>
wrkVars == <<wKind, wValue, cbDc, dcRet>>
stopVars == <<stopSnap, stopIdx>>
obsVars == <<closeCount, closeReasons, wEscaped, doubleDispatch>>
sendVars == <<sendLock, callKind, callClient, sLen, sTimeout, sTotal, sWire, sResult>>
recvVars == <<recvPc, recvSize, recvFixed, recvGot, recvChunks, recvPos, recvShort, recvResult>>
apiVars == <<apiTick, apiOp, apiClient, apiSilent, apiRaised>>
extVars == <<sendVars, recvVars, apiVars, poolCeiling>>
vars == <<srvVars, accVars, regVars, pollVars, pc, wrkVars, stopVars, obsVars, extVars>>

----------------------------------------------------------------------------
\* Helpers

InList(c, s) == \E i \in 1..Len(s) : s[i] = c

\* list.remove(x): drops the first occurrence
RECURSIVE ListRemove(_, _)
ListRemove(s, c) ==
    IF s = <<>> THEN <<>>
    ELSE IF Head(s) = c THEN Tail(s)
    ELSE <<Head(s)>> \o ListRemove(Tail(s), c)

\* Client.fileno(): the socket's descriptor, -1 once the socket is closed
Fileno(c) == IF closed[c] THEN -1 ELSE c

\* BaseSelector._fileobj_lookup as the selector calls made with a Client
\* run it: a descriptor below 0 is looked up by identity in the map and is
\* a ValueError when the object is not there.
LookupFails(c) == Fileno(c) < 0 /\ c \notin watch

\* Outcome of self._recv_selector.register(client, EVENT_READ)
SelRegister(c) ==
    IF LookupFails(c) THEN "ValueError"
    ELSE IF c \in watch THEN "KeyError"
    ELSE "ok"

\* Outcome of self._recv_selector.unregister(client)
SelUnregister(c) ==
    IF LookupFails(c) THEN "ValueError"
    ELSE IF c \notin watch THEN "KeyError"
    ELSE "ok"

\* SocketServer.register(client, silent): the exception that leaves it
RegisterRaises(c, silent) ==
    LET r == SelRegister(c) IN
    IF r = "KeyError" THEN (IF silent THEN "none" ELSE "KeyError")
    ELSE IF r = "ValueError" THEN "ValueError"
    ELSE "none"

\* SocketServer.unregister(client, silent): the exception that leaves it
UnregisterRaises(c, silent) ==
    LET r == SelUnregister(c) IN
    IF r = "KeyError" THEN (IF silent THEN "none" ELSE "KeyError")
    ELSE IF r = "ValueError" THEN "ValueError"
    ELSE "none"

\* Handshake workers that have been started and have not ended
Running == {c \in Clients : pc[c] # "idle"}
InFlight(c) == pc[c] # "idle"

\* maxthreads.MaxThreads(max_subthreads).start_thread returns once the job
\* has a thread: with the pool at its ceiling the caller waits. The default
\* max_subthreads=-1 sets no ceiling.
LimiterHasRoom == poolCeiling < 0 \/ Cardinality(Running) < poolCeiling

\* The connection and the reason of the disconnect thread t is running
DcClient(t) ==
    IF t = StopThread THEN stopSnap[stopIdx]
    ELSE IF t \in Clients THEN t
    ELSE callClient[t]

DcReason(t) ==
    IF t = StopThread THEN ReasonShutdown
    ELSE IF t \in Clients
         THEN (IF dcRet[t] = "callback" THEN ReasonExplicit ELSE wValue[t])
    ELSE IF callKind[t] = "send" THEN ReasonBroken
    ELSE ReasonExplicit

----------------------------------------------------------------------------
\* No call of the public API is under way
InitCalls ==
    /\ sendLock = [c \in Clients |-> {}]
    /\ callKind = [t \in Callers |-> "none"]
    /\ callClient = [t \in Callers |-> 1]
    /\ sLen = [t \in Callers |-> 0]
    /\ sTimeout = [t \in Callers |-> -1]
    /\ sTotal = [t \in Callers |-> 0]
    /\ sWire = [t \in Callers |-> 0]
    /\ sResult = [t \in Callers |-> -1]
    /\ recvPc = "idle"
    /\ recvSize = 0
    /\ recvFixed = TRUE
    /\ recvGot = 0
    /\ recvChunks = <<>>
    /\ recvPos = 0
    /\ recvShort = 0
    /\ recvResult = <<>>
    /\ apiTick = FALSE
    /\ apiOp = "none"
    /\ apiClient = 1
    /\ apiSilent = FALSE
    /\ apiRaised = "none"

\* State after SocketServer.__init__

Init ==
    /\ listenSock = "created"
    /\ stopSignal = FALSE
    /\ acceptAlive = FALSE
    /\ pollAlive = FALSE
    /\ acceptPc = "idle"
    /\ nAccepted = 0
    /\ clients = <<>>
    /\ watch = {}
    /\ closed = [c \in Clients |-> FALSE]
    /\ accepted = [c \in Clients |-> FALSE]
    /\ pollPc = "idle"
    /\ pollEvents = {}
    /\ pollCur = 0
    /\ pc = [t \in Threads |-> "idle"]
    /\ wKind = [c \in Clients |-> "none"]
    /\ wValue = [c \in Clients |-> "none"]
    /\ cbDc = [c \in Clients |-> FALSE]
    /\ dcRet = [c \in Clients |-> "none"]
    /\ stopSnap = <<>>
    /\ stopIdx = 0
    /\ closeCount = [c \in Clients |-> 0]
    /\ closeReasons = [c \in Clients |-> {}]
    /\ wEscaped = [c \in Clients |-> "none"]
    /\ doubleDispatch = FALSE
    /\ InitCalls
    /\ poolCeiling = MaxSubthreads

----------------------------------------------------------------------------
\* SocketServer.start

Start ==
    /\ listenSock = "created"
    /\ listenSock' = "listening"
    /\ acceptAlive' = TRUE
    /\ pollAlive' = TRUE
    /\ UNCHANGED <<stopSignal, accVars, regVars, pollVars, pc, wrkVars, stopVars, obsVars, extVars>>

----------------------------------------------------------------------------
\* The accept loop

\* One pass of _mainthread_accept_clients with a pending connection: accept,
\* wrap, append to self.clients. The next connection gets the next number.
AcceptClient ==
    /\ acceptAlive /\ ~stopSignal
    /\ acceptPc = "idle"
    /\ listenSock = "listening"
    /\ nAccepted < MaxClients
    /\ nAccepted' = nAccepted + 1
    /\ clients' = Append(clients, nAccepted + 1)
    /\ acceptPc' = "start"
    /\ UNCHANGED <<srvVars, watch, closed, accepted, pollVars, pc, wrkVars, stopVars, obsVars, extVars>>

\* start_thread(target=self._subthread_handle_accepted, args=(client,))
AcceptStart ==
    /\ acceptPc = "start"
    /\ LimiterHasRoom
    /\ pc' = [pc EXCEPT ![nAccepted] = "callback"]
    /\ wKind' = [wKind EXCEPT ![nAccepted] = "accept"]
    /\ acceptPc' = "idle"
    /\ UNCHANGED <<srvVars, nAccepted, regVars, pollVars, wValue, cbDc, dcRet, stopVars, obsVars, extVars>>

\* The Loop object of the accept loop ends between two passes once signalled
AcceptLoopExit ==
    /\ acceptAlive /\ stopSignal
    /\ acceptPc = "idle"
    /\ acceptAlive' = FALSE
    /\ UNCHANGED <<listenSock, stopSignal, pollAlive, accVars, regVars, pollVars, pc, wrkVars, stopVars, obsVars, extVars>>

----------------------------------------------------------------------------
\* The poll loop

\* events = self._recv_selector.select(self.block_time): any of the
\* registered open sockets may be readable. No event: the pass ends.
PollSelect ==
    /\ pollAlive /\ ~stopSignal
    /\ pollPc = "idle"
    /\ \E S \in SUBSET {c \in watch : ~closed[c]} :
        /\ S # {}
        /\ pollEvents' = S
    /\ pollPc' = "unreg"
    /\ UNCHANGED <<srvVars, accVars, regVars, pollCur, pc, wrkVars, stopVars, obsVars, extVars>>

\* PollUnregister as a poll loop that dispatches a ready connection and
\* leaves it in the selector.
PollUnregisterKeeps ==
    /\ pollPc = "unreg"
    /\ \E c \in pollEvents :
        /\ pollCur' = c
        /\ pollPc' = "start"
    /\ UNCHANGED <<srvVars, accVars, regVars, pollEvents, pc, wrkVars, stopVars, obsVars, extVars>>

\* self._recv_selector.unregister(key.fileobj) for the next event; an
\* exception of the selector leaves the loop's target.
PollUnregister ==
    /\ pollPc = "unreg"
    /\ \E c \in pollEvents :
        IF SelUnregister(c) = "ok"
        THEN /\ watch' = watch \ {c}
             /\ pollCur' = c
             /\ pollPc' = "start"
             /\ UNCHANGED pollEvents
        ELSE /\ pollPc' = "failed"
             /\ pollEvents' = {}
             /\ UNCHANGED <<watch, pollCur>>
    /\ UNCHANGED <<srvVars, accVars, clients, closed, accepted, pc, wrkVars, stopVars, obsVars, extVars>>

\* PollStart as a poll loop that starts the worker's thread itself,
\* not through self._threads_limiter.
PollStartNoLimiter ==
    /\ pollPc = "start"
    /\ doubleDispatch' = (doubleDispatch \/ InFlight(pollCur))
    /\ pc' = [pc EXCEPT ![pollCur] = "callback"]
    /\ wKind' = [wKind EXCEPT ![pollCur] = "read"]
    /\ pollEvents' = pollEvents \ {pollCur}
    /\ pollPc' = IF pollEvents \ {pollCur} = {} THEN "idle" ELSE "unreg"
    /\ pollCur' = 0
    /\ UNCHANGED <<srvVars, accVars, regVars, wValue, cbDc, dcRet, stopVars,
                   closeCount, closeReasons, wEscaped, extVars>>

\* start_thread(target=self._subthread_handle_readable, args=(key.fileobj,))
PollStart ==
    /\ pollPc = "start"
    /\ LimiterHasRoom
    /\ doubleDispatch' = (doubleDispatch \/ InFlight(pollCur))
    /\ pc' = [pc EXCEPT ![pollCur] = "callback"]
    /\ wKind' = [wKind EXCEPT ![pollCur] = "read"]
    /\ pollEvents' = pollEvents \ {pollCur}
    /\ pollPc' = IF pollEvents \ {pollCur} = {} THEN "idle" ELSE "unreg"
    /\ pollCur' = 0
    /\ UNCHANGED <<srvVars, accVars, regVars, wValue, cbDc, dcRet, stopVars,
                   closeCount, closeReasons, wEscaped, extVars>>

\* The Loop object of the poll loop ends between two passes once signalled,
\* and its thread ends when the target raised.
PollLoopExit ==
    /\ pollAlive
    /\ \/ stopSignal /\ pollPc = "idle"
       \/ pollPc = "failed"
    /\ pollAlive' = FALSE
    /\ UNCHANGED <<listenSock, stopSignal, acceptAlive, accVars, regVars, pollVars, pc, wrkVars, stopVars, obsVars, extVars>>

----------------------------------------------------------------------------
\* disconnect(client, reason) for one connection, run by thread t.
\* Its steps: unregister(client, silent=True); client.close(); the test
\* "client in self.clients"; self.clients.remove(client); handle_closed.

DcUnregister(t) ==
    /\ pc[t] = "dc_unreg"
    /\ LET c == DcClient(t) IN
       IF UnregisterRaises(c, TRUE) = "none"
       THEN /\ watch' = watch \ {c}
            /\ pc' = [pc EXCEPT ![t] = "dc_close"]
       ELSE /\ pc' = [pc EXCEPT ![t] = "dc_raised"]
            /\ UNCHANGED watch
    /\ UNCHANGED <<srvVars, accVars, clients, closed, accepted, pollVars, wrkVars, stopVars, obsVars, extVars>>

\* Client.close: shutdown (an error of it is passed over), close, closed = True
DcClose(t) ==
    /\ pc[t] = "dc_close"
    /\ closed' = [closed EXCEPT ![DcClient(t)] = TRUE]
    /\ pc' = [pc EXCEPT ![t] = "dc_check"]
    /\ UNCHANGED <<srvVars, accVars, clients, watch, accepted, pollVars, wrkVars, stopVars, obsVars, extVars>>

DcCheck(t) ==
    /\ pc[t] = "dc_check"
    /\ pc' = [pc EXCEPT ![t] = IF InList(DcClient(t), clients) THEN "dc_remove" ELSE "dc_notify"]
    /\ UNCHANGED <<srvVars, accVars, regVars, pollVars, wrkVars, stopVars, obsVars, extVars>>

\* list.remove raises ValueError when the element is not in the list
DcRemove(t) ==
    /\ pc[t] = "dc_remove"
    /\ LET c == DcClient(t) IN
       IF InList(c, clients)
       THEN /\ clients' = ListRemove(clients, c)
            /\ pc' = [pc EXCEPT ![t] = "dc_notify"]
       ELSE /\ pc' = [pc EXCEPT ![t] = "dc_raised"]
            /\ UNCHANGED clients
    /\ UNCHANGED <<srvVars, accVars, watch, closed, accepted, pollVars, wrkVars, stopVars, obsVars, extVars>>

\* self.handle_closed(client, reason)
DcNotify(t) ==
    /\ pc[t] = "dc_notify"
    /\ LET c == DcClient(t) IN
       /\ closeCount' = [closeCount EXCEPT ![c] = @ + 1]
       /\ closeReasons' = [closeReasons EXCEPT ![c] = @ \cup {DcReason(t)}]
    /\ pc' = [pc EXCEPT ![t] = "dc_done"]
    /\ UNCHANGED <<srvVars, accVars, regVars, pollVars, wrkVars, stopVars, wEscaped, doubleDispatch, extVars>>

----------------------------------------------------------------------------
\* The handshake workers: _subthread_handle_accepted and
\* _subthread_handle_readable, by the kind of worker.

\* The end of worker c's thread; e is the exception that left it
WorkerEnds(c, e) ==
    /\ pc' = [pc EXCEPT ![c] = "idle"]
    /\ wKind' = [wKind EXCEPT ![c] = "none"]
    /\ wValue' = [wValue EXCEPT ![c] = "none"]
    /\ cbDc' = [cbDc EXCEPT ![c] = FALSE]
    /\ dcRet' = [dcRet EXCEPT ![c] = "none"]
    /\ wEscaped' = IF e = "none" THEN wEscaped ELSE [wEscaped EXCEPT ![c] = e]

\* Inside the callback: the application disconnects the connection itself,
\* by disconnect(client, reason) or by SocketServer.send failing.
CbDisconnect(c) ==
    /\ pc[c] = "callback"
    /\ ~cbDc[c]
    /\ cbDc' = [cbDc EXCEPT ![c] = TRUE]
    /\ dcRet' = [dcRet EXCEPT ![c] = "callback"]
    /\ pc' = [pc EXCEPT ![c] = "dc_unreg"]
    /\ UNCHANGED <<srvVars, accVars, regVars, pollVars, wKind, wValue, stopVars, obsVars, extVars>>

\* CbReturn as a worker that puts the connection back into the selector at
\* the callback's return, before its own last statement.
CbReturnRegistersEarly(c, v) ==
    /\ pc[c] = "callback"
    /\ IF v = ValTrue /\ ~closed[c]
       THEN /\ pc' = [pc EXCEPT ![c] = "register"]
            /\ accepted' = IF wKind[c] = "accept"
                           THEN [accepted EXCEPT ![c] = TRUE] ELSE accepted
            /\ watch' = watch \cup {c}
            /\ UNCHANGED dcRet
       ELSE /\ pc' = [pc EXCEPT ![c] = "dc_unreg"]
            /\ dcRet' = [dcRet EXCEPT ![c] = "exit"]
            /\ UNCHANGED <<accepted, watch>>
    /\ wValue' = [wValue EXCEPT ![c] = v]
    /\ UNCHANGED <<srvVars, accVars, clients, closed, pollVars, wKind, cbDc, stopVars, obsVars, extVars>>

\* The callback returns v: "value is True and not client.closed" sends the
\* worker to register (an accept handshake sets client.accepted first),
\* anything else to disconnect(client, value).
CbReturn(c, v) ==
    /\ pc[c] = "callback"
    /\ IF v = ValTrue /\ ~closed[c]
       THEN /\ pc' = [pc EXCEPT ![c] = "register"]
            /\ accepted' = IF wKind[c] = "accept"
                           THEN [accepted EXCEPT ![c] = TRUE] ELSE accepted
            /\ UNCHANGED dcRet
       ELSE /\ pc' = [pc EXCEPT ![c] = "dc_unreg"]
            /\ dcRet' = [dcRet EXCEPT ![c] = "exit"]
            /\ UNCHANGED accepted
    /\ wValue' = [wValue EXCEPT ![c] = v]
    /\ UNCHANGED <<srvVars, accVars, clients, watch, closed, pollVars, wKind, cbDc, stopVars, obsVars, extVars>>

\* The callback raises socket.error or RuntimeError: the except clause
\* calls disconnect(client, str(e)).
CbRaisesCaught(c) ==
    /\ pc[c] = "callback"
    /\ pc' = [pc EXCEPT ![c] = "dc_unreg"]
    /\ dcRet' = [dcRet EXCEPT ![c] = "exit"]
    /\ wValue' = [wValue EXCEPT ![c] = ReasonBroken]
    /\ UNCHANGED <<srvVars, accVars, regVars, pollVars, wKind, cbDc, stopVars, obsVars, extVars>>

\* The callback raises an exception of another class: no except clause
\* of the worker matches it.
CbRaisesOther(c) ==
    /\ pc[c] = "callback"
    /\ WorkerEnds(c, "CallbackError")
    /\ UNCHANGED <<srvVars, accVars, regVars, pollVars, stopVars, closeCount, closeReasons, doubleDispatch, extVars>>

\* self.register(client), the worker's last statement
WRegister(c) ==
    /\ pc[c] = "register"
    /\ watch' = IF RegisterRaises(c, FALSE) = "none" THEN watch \cup {c} ELSE watch
    /\ WorkerEnds(c, RegisterRaises(c, FALSE))
    /\ UNCHANGED <<srvVars, accVars, clients, closed, accepted, pollVars, stopVars, closeCount, closeReasons, doubleDispatch, extVars>>

\* disconnect has returned to the worker, or raised
WDisconnected(c) ==
    /\ pc[c] \in {"dc_done", "dc_raised"}
    /\ IF pc[c] = "dc_done" /\ dcRet[c] = "callback"
       THEN /\ pc' = [pc EXCEPT ![c] = "callback"]
            /\ dcRet' = [dcRet EXCEPT ![c] = "none"]
            /\ UNCHANGED <<wKind, wValue, cbDc, wEscaped>>
       ELSE WorkerEnds(c, IF pc[c] = "dc_raised" THEN "ValueError" ELSE "none")
    /\ UNCHANGED <<srvVars, accVars, regVars, pollVars, stopVars, closeCount, closeReasons, doubleDispatch, extVars>>

----------------------------------------------------------------------------
\* SocketServer.stop

\* disconnect(self.clients, 'Server shutting down'): the list is copied
StopBegin ==
    /\ pc[StopThread] = "idle"
    /\ listenSock = "listening"
    /\ stopSnap' = clients
    /\ stopIdx' = IF clients = <<>> THEN 0 ELSE 1
    /\ pc' = [pc EXCEPT ![StopThread] = IF clients = <<>> THEN "signal" ELSE "dc_unreg"]
    /\ UNCHANGED <<srvVars, accVars, regVars, pollVars, wrkVars, obsVars, extVars>>

\* StopNextClient as a loop over self.clients itself, not a copy: every
\* removal shifts the list under the iterator, which skips the next one.
StopNextClientSkips ==
    /\ pc[StopThread] \in {"dc_done", "dc_raised"}
    /\ IF pc[StopThread] = "dc_raised"
       THEN /\ pc' = [pc EXCEPT ![StopThread] = "failed"]
            /\ UNCHANGED stopIdx
       ELSE IF stopIdx + 1 < Len(stopSnap)
       THEN /\ pc' = [pc EXCEPT ![StopThread] = "dc_unreg"]
            /\ stopIdx' = stopIdx + 2
       ELSE /\ pc' = [pc EXCEPT ![StopThread] = "signal"]
            /\ UNCHANGED stopIdx
    /\ UNCHANGED <<srvVars, accVars, regVars, pollVars, wrkVars, stopSnap, obsVars, extVars>>

\* The loop over the copy: the next connection, or an exception leaves stop
StopNextClient ==
    /\ pc[StopThread] \in {"dc_done", "dc_raised"}
    /\ IF pc[StopThread] = "dc_raised"
       THEN /\ pc' = [pc EXCEPT ![StopThread] = "failed"]
            /\ UNCHANGED stopIdx
       ELSE IF stopIdx < Len(stopSnap)
       THEN /\ pc' = [pc EXCEPT ![StopThread] = "dc_unreg"]
            /\ stopIdx' = stopIdx + 1
       ELSE /\ pc' = [pc EXCEPT ![StopThread] = "signal"]
            /\ UNCHANGED stopIdx
    /\ UNCHANGED <<srvVars, accVars, regVars, pollVars, wrkVars, stopSnap, obsVars, extVars>>

\* loop_obj.send_stop_signal(silent=True) for both loops
StopSignal ==
    /\ pc[StopThread] = "signal"
    /\ stopSignal' = TRUE
    /\ pc' = [pc EXCEPT ![StopThread] = "join"]
    /\ UNCHANGED <<listenSock, acceptAlive, pollAlive, accVars, regVars, pollVars, wrkVars, stopVars, obsVars, extVars>>

\* loop_obj.stop(silent=True) for both loops: returns when they have ended
StopJoin ==
    /\ pc[StopThread] = "join"
    /\ ~acceptAlive /\ ~pollAlive
    /\ pc' = [pc EXCEPT ![StopThread] = "shutdown"]
    /\ UNCHANGED <<srvVars, accVars, regVars, pollVars, wrkVars, stopVars, obsVars, extVars>>

\* self._server_socket.shutdown(SHUT_RDWR); self._server_socket.close()
StopCloseServerSocket ==
    /\ pc[StopThread] = "shutdown"
    /\ listenSock' = "closed"
    /\ pc' = [pc EXCEPT ![StopThread] = "done"]
    /\ UNCHANGED <<stopSignal, acceptAlive, pollAlive, accVars, regVars, pollVars, wrkVars, stopVars, obsVars, extVars>>

----------------------------------------------------------------------------
\* The server with its loops, workers and a call of stop()

Next ==
    \/ Start
    \/ AcceptClient
    \/ AcceptStart
    \/ AcceptLoopExit
    \/ PollSelect
    \/ PollUnregister
    \/ PollStart
    \/ PollLoopExit
    \/ \E c \in Clients : CbDisconnect(c)
    \/ \E c \in Clients : \E v \in {ValTrue, ValReject} : CbReturn(c, v)
    \/ \E c \in Clients : CbRaisesCaught(c)
    \/ \E c \in Clients : CbRaisesOther(c)
    \/ \E c \in Clients : WRegister(c)
    \/ \E c \in Clients : WDisconnected(c)
    \/ \E t \in Clients \cup {StopThread} : DcUnregister(t)
    \/ \E t \in Clients \cup {StopThread} : DcClose(t)
    \/ \E t \in Clients \cup {StopThread} : DcCheck(t)
    \/ \E t \in Clients \cup {StopThread} : DcRemove(t)
    \/ \E t \in Clients \cup {StopThread} : DcNotify(t)
    \/ StopBegin
    \/ StopNextClient
    \/ StopSignal
    \/ StopJoin
    \/ StopCloseServerSocket

Spec == Init /\ [][Next]_vars

\* The steps of worker c once its callback is running: the callback ends
\* (returns or raises), and the statements of the worker after it
WorkerStep(c) ==
    \/ \E v \in {ValTrue, ValReject} : CbReturn(c, v)
    \/ CbRaisesCaught(c)
    \/ CbRaisesOther(c)
    \/ WRegister(c)
    \/ WDisconnected(c)
    \/ DcUnregister(c)
    \/ DcClose(c)
    \/ DcCheck(c)
    \/ DcRemove(c)
    \/ DcNotify(c)

\* The steps of stop() after its call
StopStep ==
    \/ DcUnregister(StopThread)
    \/ DcClose(StopThread)
    \/ DcCheck(StopThread)
    \/ DcRemove(StopThread)
    \/ DcNotify(StopThread)
    \/ StopNextClient
    \/ StopSignal
    \/ StopJoin
    \/ StopCloseServerSocket

\* Every thread that can take a step takes one in the end: the loops between
\* and inside their passes, each worker, and the thread inside stop(). No
\* connection has to arrive, no socket has to become readable, and nobody
\* has to call stop().
Fairness ==
    /\ WF_vars(AcceptStart)
    /\ WF_vars(AcceptLoopExit)
    /\ WF_vars(PollUnregister)
    /\ WF_vars(PollStart)
    /\ WF_vars(PollLoopExit)
    /\ \A c \in Clients : WF_vars(WorkerStep(c))
    /\ WF_vars(StopStep)

SpecLive == Init /\ [][Next]_vars /\ Fairness

----------------------------------------------------------------------------
\* A server in service: every connection accepted, approved by
\* handle_incoming and registered, the loops between two passes.

ServingState ==
    /\ listenSock = "listening"
    /\ stopSignal = FALSE
    /\ acceptAlive = TRUE
    /\ pollAlive = TRUE
    /\ acceptPc = "idle"
    /\ nAccepted = MaxClients
    /\ clients = [i \in 1..MaxClients |-> i]
    /\ watch = Clients
    /\ closed = [c \in Clients |-> FALSE]
    /\ accepted = [c \in Clients |-> TRUE]
    /\ pollPc = "idle"
    /\ pollEvents = {}
    /\ pollCur = 0
    /\ pc = [t \in Threads |-> "idle"]
    /\ wKind = [c \in Clients |-> "none"]
    /\ wValue = [c \in Clients |-> "none"]
    /\ cbDc = [c \in Clients |-> FALSE]
    /\ dcRet = [c \in Clients |-> "none"]
    /\ stopSnap = <<>>
    /\ stopIdx = 0
    /\ closeCount = [c \in Clients |-> 0]
    /\ closeReasons = [c \in Clients |-> {}]
    /\ wEscaped = [c \in Clients |-> "none"]
    /\ doubleDispatch = FALSE
    /\ InitCalls

InitServing == ServingState /\ poolCeiling = MaxSubthreads

\* The same server built with the default max_subthreads=-1
InitServingDefault == ServingState /\ poolCeiling = -1

srvState == <<srvVars, accVars, pollVars, wrkVars, stopVars, poolCeiling>>

\* The server in service with the default pool, every connection registered:
\* the poll loop, its readable-data workers and a call of stop(). A callback
\* that raises socket.error or RuntimeError takes the worker to the same
\* disconnect(client, reason) as a returned reason, which stands for it here.
NextPolling ==
    \/ AcceptLoopExit
    \/ PollSelect
    \/ PollUnregister
    \/ PollStart
    \/ PollLoopExit
    \/ \E c \in Clients : CbDisconnect(c)
    \/ \E c \in Clients : \E v \in {ValTrue, ValReject} : CbReturn(c, v)
    \/ \E c \in Clients : CbRaisesOther(c)
    \/ \E c \in Clients : WRegister(c)
    \/ \E c \in Clients : WDisconnected(c)
    \/ \E t \in Clients \cup {StopThread} : DcUnregister(t)
    \/ \E t \in Clients \cup {StopThread} : DcClose(t)
    \/ \E t \in Clients \cup {StopThread} : DcCheck(t)
    \/ \E t \in Clients \cup {StopThread} : DcRemove(t)
    \/ \E t \in Clients \cup {StopThread} : DcNotify(t)
    \/ StopBegin
    \/ StopNextClient
    \/ StopSignal
    \/ StopJoin
    \/ StopCloseServerSocket

SpecPolling == InitServingDefault /\ [][NextPolling]_vars

----------------------------------------------------------------------------
\* SocketServer.send(client, bytes, timeout) and Client.send under it,
\* called by thread t of the application.

SendTimeouts == {-1, 1}

SendCall(t, c, n, to) ==
    /\ pc[t] = "idle"
    /\ pc' = [pc EXCEPT ![t] = "s_acquire"]
    /\ callKind' = [callKind EXCEPT ![t] = "send"]
    /\ callClient' = [callClient EXCEPT ![t] = c]
    /\ sLen' = [sLen EXCEPT ![t] = n]
    /\ sTimeout' = [sTimeout EXCEPT ![t] = to]
    /\ sTotal' = [sTotal EXCEPT ![t] = 0]
    /\ sWire' = [sWire EXCEPT ![t] = 0]
    /\ sResult' = [sResult EXCEPT ![t] = -1]
    /\ UNCHANGED <<srvState, regVars, obsVars, sendLock, recvVars, apiVars>>

\* self.send_lock.acquire(timeout=timeout): the lock is taken, or with a
\* timeout and the lock held the wait may end with False and send returns
\* total_sent, still 0. With timeout -1 the caller waits.
SendAcquire(t) ==
    /\ pc[t] = "s_acquire"
    /\ LET c == callClient[t] IN
       IF sendLock[c] = {}
       THEN /\ sendLock' = [sendLock EXCEPT ![c] = {t}]
            /\ pc' = [pc EXCEPT ![t] = "s_write"]
            /\ UNCHANGED sResult
       ELSE /\ sTimeout[t] >= 0
            /\ pc' = [pc EXCEPT ![t] = "s_done"]
            /\ sResult' = [sResult EXCEPT ![t] = sTotal[t]]
            /\ UNCHANGED sendLock
    /\ UNCHANGED <<srvState, regVars, obsVars, callKind, callClient, sLen, sTimeout, sTotal, sWire, recvVars, apiVars>>

\* SendFails as a write loop without the finally clause: the exception
\* leaves Client.send with the lock still held.
SendFailsKeepsLock(t) ==
    /\ pc' = [pc EXCEPT ![t] = "dc_unreg"]
    /\ UNCHANGED <<sendLock, sTotal, sWire, sResult>>

\* Leaving the try block, the lock released by its finally clause: the exception reaches the except
\* clause of SocketServer.send, which calls disconnect(client, str(e)).
SendFails(t) ==
    /\ sendLock' = [sendLock EXCEPT ![callClient[t]] = @ \ {t}]
    /\ pc' = [pc EXCEPT ![t] = "dc_unreg"]
    /\ UNCHANGED <<sTotal, sWire, sResult>>

\* SendWrite as a write loop that leaves by break when the socket took
\* nothing, and returns the count so far.
SendWriteBreaks(t) ==
    /\ pc[t] = "s_write"
    /\ LET c == callClient[t] IN
       IF sTotal[t] >= sLen[t]
       THEN /\ sendLock' = [sendLock EXCEPT ![c] = @ \ {t}]
            /\ pc' = [pc EXCEPT ![t] = "s_done"]
            /\ sResult' = [sResult EXCEPT ![t] = sTotal[t]]
            /\ UNCHANGED <<sTotal, sWire>>
       ELSE IF closed[c] THEN SendFails(t)
       ELSE \/ \E k \in 1..(sLen[t] - sTotal[t]) :
                /\ sTotal' = [sTotal EXCEPT ![t] = @ + k]
                /\ sWire' = [sWire EXCEPT ![t] = @ + k]
                /\ UNCHANGED <<sendLock, pc, sResult>>
            \/ /\ sendLock' = [sendLock EXCEPT ![c] = @ \ {t}]
               /\ pc' = [pc EXCEPT ![t] = "s_done"]
               /\ sResult' = [sResult EXCEPT ![t] = sTotal[t]]
               /\ UNCHANGED <<sTotal, sWire>>
            \/ SendFails(t)
    /\ UNCHANGED <<srvState, regVars, obsVars, callKind, callClient, sLen, sTimeout, recvVars, apiVars>>

\* One turn of "while total_sent < msg_len": the loop is over and send
\* returns total_sent; or self.socket.send(bytes[total_sent:]) takes k
\* bytes, takes none (RuntimeError), or raises socket.error, as it does on
\* a closed socket. The lock is released on the way out.
SendWrite(t) ==
    /\ pc[t] = "s_write"
    /\ LET c == callClient[t] IN
       IF sTotal[t] >= sLen[t]
       THEN /\ sendLock' = [sendLock EXCEPT ![c] = @ \ {t}]
            /\ pc' = [pc EXCEPT ![t] = "s_done"]
            /\ sResult' = [sResult EXCEPT ![t] = sTotal[t]]
            /\ UNCHANGED <<sTotal, sWire>>
       ELSE IF closed[c] THEN SendFails(t)
       ELSE \/ \E k \in 1..(sLen[t] - sTotal[t]) :
                /\ sTotal' = [sTotal EXCEPT ![t] = @ + k]
                /\ sWire' = [sWire EXCEPT ![t] = @ + k]
                /\ UNCHANGED <<sendLock, pc, sResult>>
            \/ SendFails(t)
    /\ UNCHANGED <<srvState, regVars, obsVars, callKind, callClient, sLen, sTimeout, recvVars, apiVars>>

\* disconnect has returned to SocketServer.send, which returns 0, or has
\* raised, and the exception leaves send.
SendDisconnected(t) ==
    /\ callKind[t] = "send"
    /\ pc[t] \in {"dc_done", "dc_raised"}
    /\ IF pc[t] = "dc_done"
       THEN /\ pc' = [pc EXCEPT ![t] = "s_done"]
            /\ sResult' = [sResult EXCEPT ![t] = 0]
       ELSE /\ pc' = [pc EXCEPT ![t] = "s_raised"]
            /\ UNCHANGED sResult
    /\ UNCHANGED <<srvState, regVars, obsVars, sendLock, callKind, callClient, sLen, sTimeout, sTotal, sWire, recvVars, apiVars>>

\* The caller has its answer
CallEnds(t) ==
    /\ pc[t] \in {"s_done", "s_raised", "api_done", "api_raised"}
    /\ pc' = [pc EXCEPT ![t] = "idle"]
    /\ callKind' = [callKind EXCEPT ![t] = "none"]
    /\ callClient' = [callClient EXCEPT ![t] = 1]
    /\ sLen' = [sLen EXCEPT ![t] = 0]
    /\ sTimeout' = [sTimeout EXCEPT ![t] = -1]
    /\ sTotal' = [sTotal EXCEPT ![t] = 0]
    /\ sWire' = [sWire EXCEPT ![t] = 0]
    /\ sResult' = [sResult EXCEPT ![t] = -1]
    /\ UNCHANGED <<srvState, regVars, obsVars, sendLock, recvVars, apiVars>>

NextSend ==
    \/ \E t \in Callers, c \in Clients, n \in 0..MaxMsgLen, to \in SendTimeouts : SendCall(t, c, n, to)
    \/ \E t \in Callers : SendAcquire(t)
    \/ \E t \in Callers : SendWrite(t)
    \/ \E t \in Callers : SendDisconnected(t)
    \/ \E t \in Callers : CallEnds(t)
    \/ \E t \in Callers : DcUnregister(t)
    \/ \E t \in Callers : DcClose(t)
    \/ \E t \in Callers : DcCheck(t)
    \/ \E t \in Callers : DcRemove(t)
    \/ \E t \in Callers : DcNotify(t)

SpecSend == InitServing /\ [][NextSend]_vars

----------------------------------------------------------------------------
\* Client.recv(size, fixed). A chunk is the piece [off, off + len) of the
\* byte stream the peer sends; the socket hands the stream out in order.

Min(a, b) == IF a < b THEN a ELSE b

RecvSizes == {0, 1, 2, 3, RecvChunkLimit, RecvChunkLimit + 1, 2 * RecvChunkLimit + 1}

\* RecvRequest as a request of min(size, 2048), the bytes read so far forgotten
RecvRequestWhole(size, got) == Min(size, RecvChunkLimit)

\* min(size - bytes_recd, 2048)
RecvRequest(size, got) == Min(size - got, RecvChunkLimit)

\* b''.join(chunks), as the pieces of the stream it is made of: two pieces
\* that follow each other in the stream read as one.
RECURSIVE JoinChunks(_)
JoinChunks(cs) ==
    IF cs = <<>> THEN <<>>
    ELSE LET h == Head(cs)
             rest == JoinChunks(Tail(cs))
         IN IF rest # <<>> /\ h.off + h.len = rest[1].off
            THEN <<[off |-> h.off, len |-> h.len + rest[1].len]>> \o Tail(rest)
            ELSE <<h>> \o rest

\* What socket.recv(n) may hand out: n bytes, or fewer when less has arrived
Deliverable(n) ==
    {n} \cup (IF recvShort < MaxShortReads THEN {k \in {1, 2, n - 1} : k >= 1 /\ k < n} ELSE {})

RecvCall(size, fixed) ==
    /\ recvPc = "idle"
    /\ recvPc' = "read"
    /\ recvSize' = size
    /\ recvFixed' = fixed
    /\ recvGot' = 0
    /\ recvChunks' = <<>>
    /\ recvPos' = 0
    /\ recvShort' = 0
    /\ recvResult' = <<>>
    /\ UNCHANGED <<srvState, regVars, pc, obsVars, sendVars, apiVars>>

\* fixed: one turn of "while bytes_recd < size", or the return of the
\* joined chunks when the loop is over. An empty chunk is RuntimeError.
RecvFixedRead ==
    /\ recvPc = "read" /\ recvFixed
    /\ IF recvGot >= recvSize
       THEN /\ recvPc' = "returned"
            /\ recvResult' = JoinChunks(recvChunks)
            /\ UNCHANGED <<recvGot, recvChunks, recvPos, recvShort>>
       ELSE \/ \E k \in Deliverable(RecvRequest(recvSize, recvGot)) :
                /\ recvChunks' = Append(recvChunks, [off |-> recvPos, len |-> k])
                /\ recvGot' = recvGot + k
                /\ recvPos' = recvPos + k
                /\ recvShort' = IF k < RecvRequest(recvSize, recvGot) THEN recvShort + 1 ELSE recvShort
                /\ UNCHANGED <<recvPc, recvResult>>
            \/ /\ recvPc' = "broken"
               /\ UNCHANGED <<recvGot, recvChunks, recvPos, recvShort, recvResult>>
    /\ UNCHANGED <<recvSize, recvFixed, srvState, regVars, pc, obsVars, sendVars, apiVars>>

\* not fixed: data = self.socket.recv(size), returned unless empty
RecvOnce ==
    /\ recvPc = "read" /\ ~recvFixed
    /\ \/ /\ recvSize > 0
          /\ \E k \in Deliverable(recvSize) :
              /\ recvResult' = <<[off |-> recvPos, len |-> k]>>
              /\ recvPos' = recvPos + k
          /\ recvPc' = "returned"
       \/ /\ recvPc' = "broken"
          /\ UNCHANGED <<recvPos, recvResult>>
    /\ UNCHANGED <<recvSize, recvFixed, recvGot, recvChunks, recvShort, srvState, regVars, pc, obsVars, sendVars, apiVars>>

\* self.socket.recv raises socket.error (the socket is non-blocking and
\* nothing has arrived, the peer reset the connection): it leaves recv.
RecvSocketError ==
    /\ recvPc = "read"
    /\ ~recvFixed \/ recvGot < recvSize
    /\ recvPc' = "error"
    /\ UNCHANGED <<recvSize, recvFixed, recvGot, recvChunks, recvPos, recvShort, recvResult, srvState, regVars, pc, obsVars, sendVars, apiVars>>

RecvEnds ==
    /\ recvPc \in {"returned", "broken", "error"}
    /\ recvPc' = "idle"
    /\ recvSize' = 0
    /\ recvFixed' = TRUE
    /\ recvGot' = 0
    /\ recvChunks' = <<>>
    /\ recvPos' = 0
    /\ recvShort' = 0
    /\ recvResult' = <<>>
    /\ UNCHANGED <<srvState, regVars, pc, obsVars, sendVars, apiVars>>

NextRecv ==
    \/ \E size \in RecvSizes, fixed \in BOOLEAN : RecvCall(size, fixed)
    \/ RecvFixedRead
    \/ RecvOnce
    \/ RecvSocketError
    \/ RecvEnds

SpecRecv == InitServing /\ [][NextRecv]_vars

----------------------------------------------------------------------------
\* register, unregister and disconnect called by thread t of the
\* application.

ApiRegister(t, c, silent) ==
    /\ pc[t] = "idle"
    /\ watch' = IF SelRegister(c) = "ok" THEN watch \cup {c} ELSE watch
    /\ apiTick' = ~apiTick
    /\ apiOp' = "register"
    /\ apiClient' = c
    /\ apiSilent' = silent
    /\ apiRaised' = RegisterRaises(c, silent)
    /\ UNCHANGED <<srvState, clients, closed, accepted, pc, obsVars, sendVars, recvVars>>

ApiUnregister(t, c, silent) ==
    /\ pc[t] = "idle"
    /\ watch' = IF SelUnregister(c) = "ok" THEN watch \ {c} ELSE watch
    /\ apiTick' = ~apiTick
    /\ apiOp' = "unregister"
    /\ apiClient' = c
    /\ apiSilent' = silent
    /\ apiRaised' = UnregisterRaises(c, silent)
    /\ UNCHANGED <<srvState, clients, closed, accepted, pc, obsVars, sendVars, recvVars>>

\* disconnect(client, reason) with one connection
ApiDisconnect(t, c) ==
    /\ pc[t] = "idle"
    /\ pc' = [pc EXCEPT ![t] = "dc_unreg"]
    /\ callKind' = [callKind EXCEPT ![t] = "disconnect"]
    /\ callClient' = [callClient EXCEPT ![t] = c]
    /\ UNCHANGED <<srvState, regVars, obsVars, sendLock, sLen, sTimeout, sTotal, sWire, sResult, recvVars, apiVars>>

ApiDisconnected(t) ==
    /\ callKind[t] = "disconnect"
    /\ pc[t] \in {"dc_done", "dc_raised"}
    /\ pc' = [pc EXCEPT ![t] = IF pc[t] = "dc_done" THEN "api_done" ELSE "api_raised"]
    /\ UNCHANGED <<srvState, regVars, obsVars, sendVars, recvVars, apiVars>>

NextReg ==
    \/ \E t \in Callers, c \in Clients, silent \in BOOLEAN : ApiRegister(t, c, silent)
    \/ \E t \in Callers, c \in Clients, silent \in BOOLEAN : ApiUnregister(t, c, silent)
    \/ \E t \in Callers, c \in Clients : ApiDisconnect(t, c)
    \/ \E t \in Callers : ApiDisconnected(t)
    \/ \E t \in Callers : CallEnds(t)
    \/ \E t \in Callers : DcUnregister(t)
    \/ \E t \in Callers : DcClose(t)
    \/ \E t \in Callers : DcCheck(t)
    \/ \E t \in Callers : DcRemove(t)
    \/ \E t \in Callers : DcNotify(t)

SpecReg == InitServing /\ [][NextReg]_vars

----------------------------------------------------------------------------
\* Properties of the server (Spec)

\* C1: handle_closed is invoked exactly once for every connection, whichever
\* termination paths meet: here, never more than once.
C1_ClosedAtMostOnce == \A c \in Clients : closeCount[c] <= 1

\* C2: no connection is at the same time registered in the data-readiness
\* selector and in flight in a handshake worker.
C2_RegisteredXorInFlight == \A c \in Clients : ~(c \in watch /\ InFlight(c))

\* A readable-data worker is in flight for a connection the poll loop took
\* out of the selector.
C2_Witness == \E c \in Clients : InFlight(c) /\ wKind[c] = "read" /\ c \notin watch

StopNotified == \A i \in 1..Len(stopSnap) : ReasonShutdown \in closeReasons[stopSnap[i]]

\* C3: once stop() is past its bulk disconnect, every connection that was in
\* the registry when it was called has received handle_closed with reason
\* 'Server shutting down'; the listening socket is closed only after those
\* notifications and after both loops have ended.
C3_StopNotifiesThenCloses ==
    /\ pc[StopThread] \in {"signal", "join", "shutdown", "done"} => StopNotified
    /\ listenSock = "closed" => StopNotified /\ ~acceptAlive /\ ~pollAlive

\* stop() has returned after disconnecting a full registry
C3_Witness ==
    /\ pc[StopThread] = "done"
    /\ Len(stopSnap) = MaxClients
    /\ listenSock = "closed"

\* C4: when handle_incoming returns a value v other than True, the accept
\* handshake ends with the connection closed, out of the registry and of the
\* selector, not accepted, and handle_closed invoked with reason v.
C4_RejectedIsClosedWithReason ==
    [][\A c \in Clients :
        (wKind[c] = "accept" /\ wValue[c] = ValReject /\ pc[c] # "idle" /\ pc'[c] = "idle")
        => /\ closed'[c]
           /\ ~InList(c, clients')
           /\ c \notin watch'
           /\ ~accepted'[c]
           /\ ValReject \in closeReasons'[c]]_vars

\* C5: a failure raised by a user callback, whatever its kind, never leaves
\* the handshake worker.
C5_CallbackFailureNeverEscapes == \A c \in Clients : wEscaped[c] # "CallbackError"

\* C6: the number of handshake workers running at the same time never
\* exceeds the worker-pool ceiling max_subthreads.
C6_WorkersWithinCeiling == Cardinality(Running) <= MaxSubthreads

\* Connections were readable at once: the readable-data worker of one runs,
\* the pool is at its ceiling and the poll loop waits to start the next.
C6_Witness ==
    /\ pollPc = "start"
    /\ ~InFlight(pollCur)
    /\ Cardinality(Running) = MaxSubthreads
    /\ \E c \in Running : c # pollCur /\ wKind[c] = "read"

\* C10: stop() racing with connections that disconnect themselves never
\* ends with a failure.
C10_StopNeverFails == pc[StopThread] # "failed"

----------------------------------------------------------------------------
\* Properties of send (SpecSend)

\* C7: SocketServer.send of N bytes returns N after all N bytes were
\* written, or 0 when the lock was not acquired within the timeout or the
\* transfer failed and the connection was disconnected; never a count
\* strictly between 0 and N.
C7_SendReturnsAllOrZero ==
    \A t \in Callers :
        (pc[t] = "s_done" /\ callKind[t] = "send") =>
            \/ sResult[t] = sLen[t] /\ sWire[t] = sLen[t]
            \/ sResult[t] = 0 /\ sWire[t] = 0 /\ sTimeout[t] >= 0
            \/ sResult[t] = 0 /\ closed[callClient[t]] /\ ~InList(callClient[t], clients)

\* A send returned 0 after the socket took a part of the message, and
\* another returned the whole length after a write in two parts.
C7_Witness ==
    /\ \E t \in Callers :
        /\ pc[t] = "s_done"
        /\ sLen[t] = MaxMsgLen
        /\ sResult[t] = 0
        /\ sWire[t] > 0
        /\ sWire[t] < sLen[t]
    /\ \E t \in Callers :
        /\ pc[t] = "s_done"
        /\ sLen[t] > 1
        /\ sResult[t] = sLen[t]

----------------------------------------------------------------------------
\* Properties of recv (SpecRecv)

\* C8: recv(size, fixed=True) returns exactly size bytes, the chunks read
\* joined in the order of arrival, each asked for with at most
\* min(remaining, 2048), or raises connection-broken when a read returns
\* nothing; it never returns fewer or more than size bytes.
C8_RecvFixedReturnsExactly ==
    /\ (recvPc = "returned" /\ recvFixed) =>
          recvResult = IF recvSize = 0 THEN <<>> ELSE <<[off |-> 0, len |-> recvSize]>>
    /\ (recvPc = "read" /\ recvFixed) =>
          /\ recvGot <= recvSize
          /\ \A i \in 1..Len(recvChunks) : recvChunks[i].len <= RecvChunkLimit
    /\ (recvPc = "broken" /\ recvFixed) => recvResult = <<>> /\ recvGot < recvSize

\* A fixed recv of more than two full chunks returned after a short read
C8_Witness ==
    /\ recvPc = "returned"
    /\ recvFixed
    /\ recvSize > 2 * RecvChunkLimit
    /\ recvShort > 0
    /\ Len(recvChunks) > 3

----------------------------------------------------------------------------
\* Properties of register and unregister (SpecReg)

\* C9: register of a connection already in the selector and unregister of
\* one not in it report a failure when silent is false, return normally
\* when silent is true, and leave the selector and the registry unchanged.
C9_SilentSuppressesFailure ==
    [][(apiTick' # apiTick /\
        \/ apiOp' = "register" /\ apiClient' \in watch
        \/ apiOp' = "unregister" /\ apiClient' \notin watch)
       => /\ apiSilent' => apiRaised' = "none"
          /\ ~apiSilent' => apiRaised' # "none"
          /\ watch' = watch
          /\ clients' = clients]_vars

----------------------------------------------------------------------------
\* Properties of the poll loop and its workers with the default pool
\* (SpecPolling)

\* C11: the poll loop never submits a readable-data worker for a connection
\* whose previous worker has not ended, so at most one handshake worker is in
\* flight for a connection, and a connection waiting in the events of a pass
\* has no worker.
C11_OneWorkerPerConnection ==
    /\ ~doubleDispatch
    /\ \A c \in pollEvents : ~InFlight(c)
    /\ pollPc = "start" => ~InFlight(pollCur)

\* Without a ceiling: a worker is at its last statement, about to put its
\* connection back, while the poll loop is about to submit the worker of
\* another connection.
C11_Witness ==
    /\ poolCeiling < 0
    /\ pollPc = "start"
    /\ \E c \in Clients : c # pollCur /\ pc[c] = "register" /\ wKind[c] = "read"

----------------------------------------------------------------------------
\* Properties of the handshakes and of disconnect under concurrency (Spec)

\* C12: when the readable-data worker of connection c ends, c is either back
\* in the selector and open, or disconnected: closed, out of the selector,
\* out of the registry, and handle_closed has been invoked for it.
C12_ReadHandshakeEndsSettled ==
    [][\A c \in Clients :
        (wKind[c] = "read" /\ InFlight(c) /\ pc'[c] = "idle")
        => \/ c \in watch' /\ ~closed'[c]
           \/ /\ closed'[c]
              /\ c \notin watch'
              /\ ~InList(c, clients')
              /\ closeCount'[c] >= 1]_vars

\* C13: a connection closed by a disconnect while its accept handshake is in
\* flight is not marked accepted and is not in the selector.
C13_ClosedDuringAcceptNotAccepted ==
    \A c \in Clients :
        (wKind[c] = "accept" /\ InFlight(c) /\ closed[c])
        => ~accepted[c] /\ c \notin watch

\* C14: at each invocation of handle_closed(c, reason), c is not in the
\* selector, c.closed is true and c is not in the registry.
C14_NotifiedAfterTeardown ==
    [][\A c \in Clients :
        closeCount'[c] > closeCount[c]
        => c \notin watch /\ closed[c] /\ ~InList(c, clients)]_vars

\* C15: once the bulk disconnect of stop() is over, whether it returned or
\* raised, every connection of the collection as it was when the call began
\* has been disconnected with the reason of the call.
C15_BulkDisconnectSkipsNone ==
    pc[StopThread] \in {"signal", "join", "shutdown", "done", "failed"}
    => \A c \in Clients : InList(c, stopSnap) => ReasonShutdown \in closeReasons[c]

----------------------------------------------------------------------------
\* Properties of the write lock (SpecSend)

\* C16: the write lock of a connection is held by exactly the threads inside
\* that connection's write loop, and by at most one: a send that returned,
\* or failed and went on to disconnect, holds no lock.
C16_WriteLockHeldInLoopOnly ==
    \A c \in Clients :
        /\ Cardinality(sendLock[c]) <= 1
        /\ sendLock[c] = {t \in Callers : pc[t] = "s_write" /\ callClient[t] = c}

\* A send on a connection failed after a partial write and is disconnecting
\* it, and a later send on the same connection has taken the lock.
C16_Witness ==
    \E c \in Clients : \E t, u \in Callers :
        /\ t # u
        /\ callClient[t] = c /\ callClient[u] = c
        /\ callKind[t] = "send" /\ pc[t] = "dc_unreg" /\ sWire[t] > 0
        /\ pc[u] = "s_write" /\ sendLock[c] = {u}

----------------------------------------------------------------------------
\* Properties of the loops and of stop() (Spec)

\* C17: no pass of the poll loop fails: a ready connection that another
\* thread disconnected before the loop unregisters it does not end the pass.
C17_PollPassNeverFails == pollPc # "failed"

\* C18: with callbacks that terminate and fair scheduling, every call of
\* stop() returns, with both loops ended and the listening socket closed.
C18_StopEventuallyReturns ==
    (pc[StopThread] # "idle")
        ~> (pc[StopThread] = "done" /\ ~acceptAlive /\ ~pollAlive /\ listenSock = "closed")

\* C19: every connection in the selector is in the registry, is not closed
\* and has been accepted.
C19_WatchedIsLiveAndAccepted ==
    \A c \in watch : InList(c, clients) /\ ~closed[c] /\ accepted[c]

\* C20: once stop() has returned and no worker is in flight, the registry
\* and the selector are empty and every connection accepted is closed.
C20_NothingSurvivesStop ==
    (pc[StopThread] = "done" /\ Running = {} /\ acceptPc = "idle")
    => /\ clients = <<>>
       /\ watch = {}
       /\ \A c \in 1..nAccepted : closed[c]

====
